---------------------------- MODULE Spec2Model ----------------------------
(***************************************************************************)
(* One invocation of a playback function of helper.py: play_youtube_video, *)
(* play_rtsp_stream, play_webcam or play_stored_video.  The state is the   *)
(* function's locals, the position of control, and the log of the calls    *)
(* the function makes into the external libraries (the downloader, the     *)
(* video-capture library, the inference model and the UI framework).       *)
(*                                                                         *)
(* The external world is fixed when the function is entered ("env"): how   *)
(* many frames the source yields before a read fails, whether the capture  *)
(* reports isOpened() after construction, and which one external call, if  *)
(* any, raises an exception.  One raising call is enough: the first        *)
(* exception inside a try block leaves the loop for the handler.           *)
(***************************************************************************)
EXTENDS Naturals, Sequences, FiniteSets

VARIABLES
  pc,                 \* position of control in the function
  fn,                 \* the playback function that was entered
  pressed,            \* value returned by st.sidebar.button(...)
  conf,               \* parameter conf
  source,             \* source_youtube / source_rtsp / source_webcam / source_vid
  is_display_tracker, \* local is_display_tracker
  tracker,            \* local tracker
  env,                \* the external world of this invocation
  info_dict,          \* result of ydl.extract_info (play_youtube_video)
  video_url,          \* local video_url (play_youtube_video)
  tfile,              \* local tfile: name of the temporary file (play_stored_video)
  vid_cap,            \* local vid_cap: "unbound", "closed", "open" or "released"
  k,                  \* frames the capture has delivered so far
  image,              \* local image: the frame last read
  i,                  \* index of the next call of the per-frame body
  exc,                \* the exception being handled ("none" if none)
  log                 \* the external calls made so far, in order

vars == <<pc, fn, pressed, conf, source, is_display_tracker, tracker, env,
          info_dict, video_url, tfile, vid_cap, k, image, i, exc, log>>

-----------------------------------------------------------------------------
(* Bounds of the model. *)

\* most frames a source yields before a read fails
MaxFrames == 2
\* longest 'formats' list the downloader returns
MaxFormats == 2

-----------------------------------------------------------------------------
(* Values. *)

\* Python's None
NoneVal == "None"

Fns == {"play_youtube_video", "play_rtsp_stream", "play_webcam", "play_stored_video"}

Confs == {"0.25", "0.5"}

\* the options of the second st.radio of display_tracker_options
TrackerPresets == {"bytetrack.yaml", "botsort.yaml"}

\* an external call: the operation, the frame its data derives from (0 if
\* none), its arguments, and how it ended ("ok", "fail" or "raise")
Call(op, frame, args) == [op |-> op, frame |-> frame, args |-> args, res |-> "ok"]

Ended(c, r) == [c EXCEPT !.res = r]

\* the entries of a 'formats' list: f.get('vcodec') is None when the entry
\* has no 'vcodec' key; the downloader drops entries without a 'url'
Vcodecs == {NoneVal, "none", "avc1"}
Urls == {"u1", "u2"}
FormatEntries == [vcodec : Vcodecs, url : Urls]

RECURSIVE SeqsUpTo(_, _)
SeqsUpTo(S, n) ==
  IF n = 0 THEN {<<>>}
  ELSE LET shorter == SeqsUpTo(S, n - 1)
       IN shorter \cup {Append(s, x) : s \in {t \in shorter : Len(t) = n - 1}, x \in S}

\* what extract_info returns: a dict with or without the key 'formats'
InfoDicts ==
  {[has_formats |-> FALSE, formats |-> <<>>]} \cup
  {[has_formats |-> TRUE, formats |-> fs] : fs \in SeqsUpTo(FormatEntries, MaxFormats)}

NoInfo == [has_formats |-> FALSE, formats |-> <<>>]

\* the external calls that may raise, by kind; a kind with frames raises at
\* the given frame (for "read": at the given read attempt)
NoFault == [op |-> "none", at |-> 0]
Faults ==
  {NoFault} \cup
  {[op |-> o, at |-> 0] : o \in {"extract_info", "VideoCapture",
                                  "NamedTemporaryFile", "write"}} \cup
  {[op |-> "read", at |-> n] : n \in 1..(MaxFrames + 1)} \cup
  {[op |-> o, at |-> n] : o \in {"resize", "infer", "plot", "image"}, n \in 1..MaxFrames}

\* the calls function f makes before its loop
SetupOps(f) ==
  CASE f = "play_youtube_video" -> {"extract_info", "VideoCapture"}
    [] f = "play_stored_video"  -> {"NamedTemporaryFile", "write", "VideoCapture"}
    [] OTHER                    -> {"VideoCapture"}

\* the worlds function f can meet: a capture that does not open yields no
\* frame, and the raising call is one the function gets to make (a world
\* whose raising call is never made is the world where nothing raises)
Envs(f) ==
  {e \in [nframes : 0..MaxFrames, opens : BOOLEAN, fault : Faults] :
     /\ ~e.opens => e.nframes = 0
     /\ \/ e.fault = NoFault
        \/ e.fault.op \in SetupOps(f)
        \/ e.opens /\ e.fault.op = "read" /\ e.fault.at <= e.nframes + 1
        \/ e.opens /\ e.fault.op \in {"resize", "infer", "plot", "image"}
                   /\ e.fault.at <= e.nframes}

FaultKind(op) == IF op \in {"track", "predict"} THEN "infer" ELSE op

\* does this call raise in this invocation?
Raises(c, at) == env.fault.op = FaultKind(c.op) /\ env.fault.at = at


-----------------------------------------------------------------------------
(* Pure functions of helper.py. *)

\* display_tracker_options with the flag stuck at True
display_tracker_options_always(display_tracker, tracker_type) ==
  <<TRUE, tracker_type>>

\* display_tracker_options(): the two st.radio values in, the pair out
display_tracker_options(display_tracker, tracker_type) ==
  LET flag == (display_tracker = "Yes")
  IN IF flag THEN <<flag, tracker_type>> ELSE <<flag, NoneVal>>

\* the radio values display_tracker_options can see: the second radio is
\* only drawn (and read) when the first one says 'Yes'
RadioChoices ==
  {<<"Yes", t>> : t \in TrackerPresets} \cup {<<"No", NoneVal>>}

\* _display_detected_frames with the else of the tracking test lost: a
\* tracked frame is predicted as well
display_detected_frames_both(c, img, is_display_tracking, trk) ==
  << Call("resize", img, <<"720", "405">>) >> \o
  (IF is_display_tracking
     THEN <<Call("track", img, <<c, "persist=True", trk>>)>> ELSE <<>>) \o
  << Call("predict", img, <<c>>),
     Call("plot", img, <<"res[0]">>),
     Call("image", img, <<"Detected Video", "BGR", "use_column_width=True">>) >>

\* _display_detected_frames(conf, model, st_frame, image, is_display_tracking,
\* tracker): the external calls it makes, in order.  int(720*(9/16)) = 405.
display_detected_frames(c, img, is_display_tracking, trk) ==
  << Call("resize", img, <<"720", "405">>),
     IF is_display_tracking
       THEN Call("track", img, <<c, "persist=True", trk>>)
       ELSE Call("predict", img, <<c>>),
     Call("plot", img, <<"res[0]">>),
     Call("image", img, <<"Detected Video", "BGR", "use_column_width=True">>) >>

\* play_webcam's inlined body with persist=True forgotten
webcam_frame_no_persist(c, img, flag, trk) ==
  << Call("resize", img, <<"720", "405">>),
     IF flag
       THEN Call("track", img, <<c, trk>>)
       ELSE Call("predict", img, <<c>>),
     Call("plot", img, <<"res[0]">>),
     Call("image", img, <<"Detected Video", "BGR", "use_column_width=True">>) >>

\* the body of play_webcam's loop for one frame (the inlined copy)
webcam_frame(c, img, flag, trk) ==
  << Call("resize", img, <<"720", "405">>),
     IF flag
       THEN Call("track", img, <<c, "persist=True", trk>>)
       ELSE Call("predict", img, <<c>>),
     Call("plot", img, <<"res[0]">>),
     Call("image", img, <<"Detected Video", "BGR", "use_column_width=True">>) >>

\* the per-frame body each playback function runs on a frame it has read
FrameBody(f, c, img, flag, trk) ==
  IF f = "play_webcam"
    THEN webcam_frame(c, img, flag, trk)
    ELSE display_detected_frames(c, img, flag, trk)

\* the scan without its break: the url of the last video entry
RECURSIVE ScanFormatsNoBreak(_, _)
ScanFormatsNoBreak(formats, j) ==
  IF j > Len(formats) THEN NoneVal
  ELSE LET rest == ScanFormatsNoBreak(formats, j + 1)
       IN IF rest # NoneVal THEN rest
          ELSE IF formats[j].vcodec # "none" THEN formats[j].url
          ELSE NoneVal

\* the for loop of play_youtube_video over formats, from entry j on: the url
\* of the first entry whose f.get('vcodec') is not 'none', else None
RECURSIVE ScanFormats(_, _)
ScanFormats(formats, j) ==
  IF j > Len(formats) THEN NoneVal
  ELSE IF formats[j].vcodec # "none" THEN formats[j].url
  ELSE ScanFormats(formats, j + 1)

\* video_url as play_youtube_video computes it from info_dict:
\* formats = info_dict.get('formats', None); if formats: for f in formats ...
ResolveVideoUrl(info) ==
  LET formats == IF info.has_formats THEN info.formats ELSE <<>>
  IN IF Len(formats) > 0 THEN ScanFormats(formats, 1) ELSE NoneVal

\* Python truth of video_url
Truthy(u) == u # NoneVal /\ u # ""

\* st.sidebar.error(msg + str(e))
ErrorCall(msg, e) == Call("sidebar.error", 0, <<msg, e>>)

\* the argument of cv2.VideoCapture(...) in each function
CaptureSource(f) ==
  CASE f = "play_youtube_video" -> video_url
    [] f = "play_rtsp_stream"   -> source
    [] f = "play_webcam"        -> "0"
    [] f = "play_stored_video"  -> tfile

\* the message of each function's except clause
HandlerMessage(f) ==
  IF f = "play_rtsp_stream" THEN "Error loading RTSP stream: "
                            ELSE "Error loading video: "

-----------------------------------------------------------------------------
(* The state after construction: no playback function has been entered. *)

Init ==
  /\ pc = "idle"
  /\ fn = "none"
  /\ pressed = FALSE
  /\ conf = NoneVal
  /\ source = NoneVal
  /\ is_display_tracker = FALSE
  /\ tracker = NoneVal
  /\ env = [nframes |-> 0, opens |-> FALSE, fault |-> NoFault]
  /\ info_dict = NoInfo
  /\ video_url = NoneVal
  /\ tfile = NoneVal
  /\ vid_cap = "unbound"
  /\ k = 0
  /\ image = 0
  /\ i = 0
  /\ exc = "none"
  /\ log = <<>>

\* entering a playback function: the widgets are read, the button is tested
Enter(f, c, src, radio, b, e, next, calls) ==
  /\ fn' = f
  /\ conf' = c
  /\ source' = src
  /\ is_display_tracker' = display_tracker_options(radio[1], radio[2])[1]
  /\ tracker' = display_tracker_options(radio[1], radio[2])[2]
  /\ pressed' = b
  /\ env' = e
  /\ pc' = next
  /\ log' = log \o calls
  /\ UNCHANGED <<info_dict, video_url, tfile, vid_cap, k, image, i, exc>>

\* play_youtube_video up to the try
play_youtube_video ==
  /\ pc = "idle"
  /\ \E c \in Confs, radio \in RadioChoices, b \in BOOLEAN,
        e \in Envs("play_youtube_video") :
    Enter("play_youtube_video", c, "youtube_url", radio, b, e,
          IF b THEN "extract" ELSE "returned", <<>>)

\* play_rtsp_stream up to the try
play_rtsp_stream ==
  /\ pc = "idle"
  /\ \E c \in Confs, radio \in RadioChoices, b \in BOOLEAN,
        e \in Envs("play_rtsp_stream") :
    Enter("play_rtsp_stream", c, "rtsp_url", radio, b, e,
          IF b THEN "open" ELSE "returned", <<>>)

\* play_webcam up to the try
play_webcam ==
  /\ pc = "idle"
  /\ \E c \in Confs, radio \in RadioChoices, b \in BOOLEAN,
        e \in Envs("play_webcam") :
    Enter("play_webcam", c, "0", radio, b, e,
          IF b THEN "open" ELSE "returned", <<>>)

\* play_stored_video without the test of source_vid
play_stored_video_no_upload_test ==
  /\ pc = "idle"
  /\ \E c \in Confs, radio \in RadioChoices, b \in BOOLEAN,
        e \in Envs("play_stored_video"), source_vid \in {NoneVal, "upload.mp4"} :
       Enter("play_stored_video", c, source_vid, radio, b, e,
             IF b THEN "tmpfile" ELSE "returned", <<>>)

\* play_stored_video up to the try, or through the else of the upload test
\* (st.video(source_vid), the preview of the upload, opens and infers nothing)
play_stored_video ==
  /\ pc = "idle"
  /\ \E c \in Confs, radio \in RadioChoices, b \in BOOLEAN,
        e \in Envs("play_stored_video"), source_vid \in {NoneVal, "upload.mp4"} :
    Enter("play_stored_video", c, source_vid, radio, b, e,
          IF b /\ source_vid # NoneVal THEN "tmpfile" ELSE "returned",
          IF b /\ source_vid = NoneVal
            THEN <<ErrorCall("Please upload a video file.", "")>>
            ELSE <<>>)

-----------------------------------------------------------------------------
(* The steps inside the try blocks. *)

\* an external call raises: control goes to the except clause of the function
Raise(c) ==
  /\ log' = Append(log, Ended(c, "raise"))
  /\ exc' = c.op
  /\ pc' = "except"

\* play_youtube_video: extract_info, the scan of the formats, and the test of
\* video_url with its else branch
ExtractInfo ==
  /\ pc = "extract"
  /\ LET c == Call("extract_info", 0, <<source>>)
     IN IF Raises(c, 0)
          THEN Raise(c) /\ UNCHANGED <<info_dict, video_url>>
          ELSE \E info \in InfoDicts :
                 /\ info_dict' = info
                 /\ video_url' = ResolveVideoUrl(info)
                 /\ exc' = exc
                 /\ IF Truthy(ResolveVideoUrl(info))
                      THEN /\ pc' = "open"
                           /\ log' = Append(log, c)
                      ELSE /\ pc' = "returned"
                           /\ log' = log \o
                                <<c, ErrorCall("Failed to retrieve video URL.", "")>>
  /\ UNCHANGED <<fn, pressed, conf, source, is_display_tracker, tracker, env,
                 tfile, vid_cap, k, image, i>>

\* play_stored_video: tfile = tempfile.NamedTemporaryFile(delete=False)
CreateTempFile ==
  /\ pc = "tmpfile"
  /\ LET c == Call("NamedTemporaryFile", 0, <<"delete=False">>)
     IN IF Raises(c, 0)
          THEN Raise(c) /\ UNCHANGED tfile
          ELSE /\ tfile' = "tmp1"
               /\ log' = Append(log, c)
               /\ pc' = "write"
               /\ exc' = exc
  /\ UNCHANGED <<fn, pressed, conf, source, is_display_tracker, tracker, env,
                 info_dict, video_url, vid_cap, k, image, i>>

\* play_stored_video: tfile.write(source_vid.read())
WriteTempFile ==
  /\ pc = "write"
  /\ LET c == Call("write", 0, <<tfile, source>>)
     IN IF Raises(c, 0)
          THEN Raise(c)
          ELSE /\ log' = Append(log, c)
               /\ pc' = "open"
               /\ exc' = exc
  /\ UNCHANGED <<fn, pressed, conf, source, is_display_tracker, tracker, env,
                 info_dict, video_url, tfile, vid_cap, k, image, i>>

\* vid_cap = cv2.VideoCapture(...): when the call raises, vid_cap stays
\* unbound; otherwise the capture is open or not, as the source decides.
\* (st_frame = st.empty() only makes the placeholder the frames are drawn in.)
OpenCapture ==
  /\ pc = "open"
  /\ LET c == Call("VideoCapture", 0, <<CaptureSource(fn)>>)
     IN IF Raises(c, 0)
          THEN Raise(c) /\ UNCHANGED vid_cap
          ELSE /\ vid_cap' = IF env.opens THEN "open" ELSE "closed"
               /\ log' = Append(log, c)
               /\ pc' = "loop"
               /\ exc' = exc
  /\ UNCHANGED <<fn, pressed, conf, source, is_display_tracker, tracker, env,
                 info_dict, video_url, tfile, k, image, i>>

\* while vid_cap.isOpened(): falling out of the loop ends the try block and
\* the function
LoopTest ==
  /\ pc = "loop"
  /\ pc' = IF vid_cap = "open" THEN "read" ELSE "returned"
  /\ UNCHANGED <<fn, pressed, conf, source, is_display_tracker, tracker, env,
                 info_dict, video_url, tfile, vid_cap, k, image, i, exc, log>>

\* success, image = vid_cap.read(); if success: ... else: ...
ReadFrame ==
  /\ pc = "read"
  /\ LET c == Call("read", k + 1, <<>>)
     IN IF Raises(c, k + 1)
          THEN Raise(c) /\ UNCHANGED <<k, image, i>>
          ELSE IF k < env.nframes
            THEN /\ k' = k + 1
                 /\ image' = k + 1
                 /\ i' = 1
                 /\ log' = Append(log, c)
                 /\ pc' = "frame"
                 /\ exc' = exc
            ELSE /\ log' = Append(log, Ended(Call("read", 0, <<>>), "fail"))
                 /\ pc' = "readfail"
                 /\ exc' = exc
                 /\ UNCHANGED <<k, image, i>>
  /\ UNCHANGED <<fn, pressed, conf, source, is_display_tracker, tracker, env,
                 info_dict, video_url, tfile, vid_cap>>

\* the else branch with the retry that helper.py keeps commented out in
\* play_rtsp_stream: release, reopen the source and continue
ReleaseAndRetry ==
  /\ pc = "readfail"
  /\ vid_cap' = "open"
  /\ log' = log \o <<Call("release", 0, <<>>),
                     Call("VideoCapture", 0, <<CaptureSource(fn)>>)>>
  /\ pc' = "loop"
  /\ UNCHANGED <<fn, pressed, conf, source, is_display_tracker, tracker, env,
                 info_dict, video_url, tfile, k, image, i, exc>>

\* the else branch of the read: vid_cap.release(); break
ReleaseAndBreak ==
  /\ pc = "readfail"
  /\ vid_cap' = "released"
  /\ log' = Append(log, Call("release", 0, <<>>))
  /\ pc' = "returned"
  /\ UNCHANGED <<fn, pressed, conf, source, is_display_tracker, tracker, env,
                 info_dict, video_url, tfile, k, image, i, exc>>

\* the next call of the per-frame body; after the last one the loop tests
\* isOpened() again
FrameStep ==
  /\ pc = "frame"
  /\ LET body == FrameBody(fn, conf, image, is_display_tracker, tracker)
         c == body[i]
     IN IF Raises(c, c.frame)
          THEN Raise(c) /\ UNCHANGED i
          ELSE /\ log' = Append(log, c)
               /\ exc' = exc
               /\ IF i < Len(body)
                    THEN i' = i + 1 /\ pc' = "frame"
                    ELSE i' = 0 /\ pc' = "loop"
  /\ UNCHANGED <<fn, pressed, conf, source, is_display_tracker, tracker, env,
                 info_dict, video_url, tfile, vid_cap, k, image>>

\* a handler that displays the error and goes on with the loop
ExceptHandlerResume ==
  /\ pc = "except"
  /\ log' = Append(log, ErrorCall(HandlerMessage(fn), exc))
  /\ pc' = "loop"
  /\ UNCHANGED <<fn, pressed, conf, source, is_display_tracker, tracker, env,
                 info_dict, video_url, tfile, vid_cap, k, image, i, exc>>

\* except Exception as e: the handler of play_rtsp_stream first calls
\* vid_cap.release(), which is an UnboundLocalError when VideoCapture itself
\* raised; the other three only display the error
ExceptHandler ==
  /\ pc = "except"
  /\ IF fn = "play_rtsp_stream"
       THEN IF vid_cap = "unbound"
              THEN /\ pc' = "raised"
                   /\ exc' = "UnboundLocalError"
                   /\ UNCHANGED <<vid_cap, log>>
              ELSE /\ vid_cap' = "released"
                   /\ log' = log \o <<Call("release", 0, <<>>),
                                      ErrorCall(HandlerMessage(fn), exc)>>
                   /\ pc' = "returned"
                   /\ exc' = exc
       ELSE /\ log' = Append(log, ErrorCall(HandlerMessage(fn), exc))
            /\ pc' = "returned"
            /\ UNCHANGED <<vid_cap, exc>>
  /\ UNCHANGED <<fn, pressed, conf, source, is_display_tracker, tracker, env,
                 info_dict, video_url, tfile, k, image, i>>

Next ==
  \/ play_youtube_video
  \/ play_rtsp_stream
  \/ play_webcam
  \/ play_stored_video
  \/ ExtractInfo
  \/ CreateTempFile
  \/ WriteTempFile
  \/ OpenCapture
  \/ LoopTest
  \/ ReadFrame
  \/ ReleaseAndBreak
  \/ FrameStep
  \/ ExceptHandler

Spec == Init /\ [][Next]_vars

\* the function is single-threaded and synchronous: a step that can be taken
\* is taken
FairSpec == Spec /\ WF_vars(Next)

-----------------------------------------------------------------------------
(* Reading the log. *)

Terminated == pc \in {"returned", "raised"}

InferOps == {"track", "predict"}

\* the entries of the log whose operation is in ops
Of(ops) == SelectSeq(log, LAMBDA c : c.op \in ops)

\* the calls of the log that returned normally, among ops
Done(ops) == SelectSeq(log, LAMBDA c : c.op \in ops /\ c.res = "ok")

\* the sidebar error messages displayed so far
Errors == Of({"sidebar.error"})

\* some external call has raised
SomeRaise == \E j \in DOMAIN log : log[j].res = "raise"

\* a read has returned success = False
IsFailedRead(c) == c.op = "read" /\ c.res = "fail"

IsPrefix(s, t) == Len(s) <= Len(t) /\ SubSeq(t, 1, Len(s)) = s

-----------------------------------------------------------------------------
\* C1: once detection is requested, a failure raised by any step is caught
\* inside the playback function: the function returns normally and a sidebar
\* error is displayed, whichever step failed, the capture-opening call
\* included.  (Fails: play_rtsp_stream's handler uses vid_cap, which is
\* unbound when cv2.VideoCapture itself raised.)
C1_FailureCaughtAndShown ==
  (pressed /\ SomeRaise /\ Terminated) =>
     (pc = "returned" /\ Len(Errors) >= 1)

\* C2: every capture that was opened is released before the function
\* returns, on every path.  (Fails: an exception in the loop of
\* play_youtube_video, play_webcam or play_stored_video leaves it open.)
C2_CaptureReleasedOnReturn ==
  Terminated => vid_cap # "open"

\* C3: when detection is requested and no frame is obtained from the input,
\* the function does not return silently: at least one sidebar error has been
\* displayed when it returns.  (Fails: a capture that does not open, or whose
\* first read fails, ends the function without a message.)
C3_NoSilentReturn ==
  (pc = "returned" /\ pressed /\ k = 0) => Len(Errors) >= 1

-----------------------------------------------------------------------------
\* the place of a call in the processing of one frame
Stage(op) ==
  CASE op = "read"     -> 1
    [] op = "resize"   -> 2
    [] op \in InferOps -> 3
    [] op = "plot"     -> 4
    [] op = "image"    -> 5

\* the calls of the frame loop that returned normally, in order
Pipeline == Done({"read", "resize", "track", "predict", "plot", "image"})

\* C4: each frame read goes through one resize, one inference, one plot and
\* one render, in that order, all before the next frame is read: the calls of
\* the loop that completed are read, resize, inference, plot, render of
\* frame 1, then the same five of frame 2, and so on, so the k-th rendered
\* image derives from the k-th frame read and nothing is skipped, repeated or
\* reordered.
C4_FramePipeline ==
  \A j \in DOMAIN Pipeline :
     /\ Stage(Pipeline[j].op) = ((j - 1) % 5) + 1
     /\ Pipeline[j].frame = ((j - 1) \div 5) + 1

\* two frames have been read, inferred and rendered, and the function is over
C4_Witness ==
  /\ Terminated
  /\ Len(Done({"image"})) >= 2
  /\ Len(Done(InferOps)) >= 2

-----------------------------------------------------------------------------
\* C5, the part about states: the loop body runs only while the capture is
\* open, and after a failed read the only further call is the release of the
\* capture, which has happened when the function is over
LoopStopsAtFailedRead ==
  /\ (pc \in {"read", "frame", "readfail"} => vid_cap = "open")
  /\ \A j \in DOMAIN log :
        IsFailedRead(log[j]) =>
          /\ \A m \in (j + 1)..Len(log) : log[m].op = "release"
          /\ Terminated => (j < Len(log) /\ vid_cap = "released")

LoopPcs == {"loop", "read", "frame", "readfail"}

\* C5, the part about steps: the loop is left only by the failed read's
\* break, by isOpened() being false, or by an exception
LoopExit ==
  (pc \in LoopPcs /\ pc' \notin LoopPcs) =>
     \/ pc' = "except"
     \/ pc = "readfail" /\ pc' = "returned"
     \/ pc = "loop" /\ vid_cap # "open" /\ pc' = "returned"

\* C5: the frame loop runs only while the capture is open and stops at the
\* first unsuccessful read, after which the capture is released and nothing
\* more is read, inferred or rendered; there is no other exit from the loop
\* apart from isOpened() being false and an exception; and when every
\* external call returns (the source being finite) the function returns.
C5_LoopStops ==
  /\ []LoopStopsAtFailedRead
  /\ [][LoopExit]_vars
  /\ ((pc # "idle" /\ env.fault = NoFault) ~> (pc = "returned"))

\* frames were read, then a read failed, the capture was released and the
\* function returned
C5_Witness ==
  /\ pc = "returned"
  /\ k >= 1
  /\ vid_cap = "released"
  /\ \E j \in DOMAIN log : IsFailedRead(log[j])

-----------------------------------------------------------------------------
\* C6: no retry and no recovery: within one invocation a capture is opened at
\* most once, at most one sidebar error is displayed, and after an error
\* message or a failed read no capture is opened and no frame is read or
\* inferred.
C6_NoRetry ==
  /\ Len(Of({"VideoCapture"})) <= 1
  /\ Len(Errors) <= 1
  /\ \A j \in DOMAIN log :
        (log[j].op = "sidebar.error" \/ IsFailedRead(log[j])) =>
           \A m \in (j + 1)..Len(log) :
              log[m].op \notin {"VideoCapture", "read", "track", "predict"}

\* an exception in the middle of the stream: a frame was inferred, then the
\* error was displayed and the function returned, frames still unread
C6_Witness ==
  /\ pc = "returned"
  /\ Len(Errors) = 1
  /\ Len(Done(InferOps)) >= 1
  /\ k < env.nframes

-----------------------------------------------------------------------------
\* C7: display_tracker_options returns (True, one of the two presets) or
\* (False, None); the flag, the tracker and the confidence are the same for
\* every frame of an invocation: every inference is model.track with
\* persist=True, that tracker and that conf if tracking is on, and
\* model.predict with that conf otherwise.
C7_TrackerFixed ==
  /\ (pc # "idle") =>
        \/ is_display_tracker /\ tracker \in TrackerPresets
        \/ ~is_display_tracker /\ tracker = NoneVal
  /\ \A j \in DOMAIN log :
        log[j].op \in InferOps =>
          IF is_display_tracker
            THEN /\ log[j].op = "track"
                 /\ log[j].args = <<conf, "persist=True", tracker>>
            ELSE /\ log[j].op = "predict"
                 /\ log[j].args = <<conf>>

\* two frames tracked with the second preset
C7_Witness ==
  /\ Terminated
  /\ tracker = "botsort.yaml"
  /\ Len(Done({"track"})) >= 2

-----------------------------------------------------------------------------
\* the entries of the extracted format list that are video streams
VideoEntries ==
  IF info_dict.has_formats
    THEN {j \in DOMAIN info_dict.formats : info_dict.formats[j].vcodec # "none"}
    ELSE {}

Extracted == fn = "play_youtube_video" /\ Len(Done({"extract_info"})) = 1

\* C8: in play_youtube_video, when extraction succeeds, the capture is opened
\* on the url of the first entry of the format list whose vcodec is not
\* 'none' (no vcodec counts as video); if the list is absent, empty or holds
\* only 'none' entries, no capture is opened, nothing is inferred and
\* 'Failed to retrieve video URL.' is displayed exactly once.
C8_FirstVideoFormat ==
  Extracted =>
    IF VideoEntries # {}
      THEN /\ \A c \in {log[j] : j \in DOMAIN log} :
                 c.op = "sidebar.error" => c.args[1] # "Failed to retrieve video URL."
           /\ (pc # "open") =>
                 \E j \in VideoEntries :
                    /\ \A m \in VideoEntries : j <= m
                    /\ Of({"VideoCapture"}) =
                         <<Call("VideoCapture", 0, <<info_dict.formats[j].url>>)>>
                       \/ Of({"VideoCapture"}) =
                         <<Ended(Call("VideoCapture", 0, <<info_dict.formats[j].url>>),
                                 "raise")>>
      ELSE /\ pc = "returned"
           /\ Of({"VideoCapture"}) = <<>>
           /\ Of(InferOps) = <<>>
           /\ Errors = <<ErrorCall("Failed to retrieve video URL.", "")>>

\* the first entry is audio only, the second is the video stream, and a frame
\* of it has been inferred
C8_Witness ==
  /\ Extracted
  /\ Len(info_dict.formats) = 2
  /\ info_dict.formats[1].vcodec = "none"
  /\ info_dict.formats[2].vcodec # "none"
  /\ info_dict.formats[1].url # info_dict.formats[2].url
  /\ Len(Done(InferOps)) >= 1

-----------------------------------------------------------------------------
TempFileOps == {"NamedTemporaryFile", "write"}

\* C9: nothing is opened or inferred unless the detect button is pressed.  In
\* play_stored_video, the button pressed with no upload displays 'Please
\* upload a video file.' once and does nothing else; with an upload, at most
\* one temporary file is made, a capture is only ever opened on the path of
\* the one temporary file that was written, and it is opened on it unless
\* making or writing the file raised.
C9_ButtonAndUpload ==
  /\ ~pressed => log = <<>>
  /\ fn # "play_stored_video" => Of(TempFileOps) = <<>>
  /\ (fn = "play_stored_video" /\ pressed /\ source = NoneVal) =>
        log = <<ErrorCall("Please upload a video file.", "")>>
  /\ (fn = "play_stored_video" /\ pressed /\ source # NoneVal) =>
        /\ Len(Of({"NamedTemporaryFile"})) <= 1
        /\ Len(Of({"write"})) <= 1
        /\ \A j \in DOMAIN log :
              log[j].op = "VideoCapture" =>
                 /\ Done(TempFileOps) =
                      <<Call("NamedTemporaryFile", 0, <<"delete=False">>),
                        Call("write", 0, <<tfile, source>>)>>
                 /\ tfile # NoneVal
                 /\ log[j].args = <<tfile>>
        /\ (Terminated /\ env.fault.op \notin TempFileOps) =>
              Len(Of({"VideoCapture"})) = 1

\* an uploaded file was written to a temporary file, the capture opened on it
\* and a frame inferred
C9_Witness ==
  /\ fn = "play_stored_video"
  /\ pressed
  /\ source = "upload.mp4"
  /\ Len(Done({"VideoCapture"})) = 1
  /\ Len(Done(InferOps)) >= 1

-----------------------------------------------------------------------------
\* the first call of a frame body that raises in world e, 0 if none does
FirstRaise(body, e) ==
  LET hits == {n \in DOMAIN body :
                 e.fault.op = FaultKind(body[n].op) /\ e.fault.at = body[n].frame}
  IN IF hits = {} THEN 0 ELSE CHOOSE n \in hits : \A m \in hits : n <= m

\* the calls made, from read attempt j on, by a loop on an open capture that
\* hands each frame read to _display_detected_frames and releases the capture
\* at the first failed read (the loop of play_stored_video), in world e
RECURSIVE HelperLoop(_, _, _, _, _)
HelperLoop(e, c, flag, trk, j) ==
  IF e.fault = [op |-> "read", at |-> j]
    THEN <<Ended(Call("read", j, <<>>), "raise")>>
  ELSE IF j > e.nframes
    THEN <<Ended(Call("read", 0, <<>>), "fail"), Call("release", 0, <<>>)>>
  ELSE LET body == display_detected_frames(c, j, flag, trk)
           cut == FirstRaise(body, e)
       IN IF cut = 0
            THEN <<Call("read", j, <<>>)>> \o body \o HelperLoop(e, c, flag, trk, j + 1)
            ELSE <<Call("read", j, <<>>)>> \o SubSeq(body, 1, cut - 1)
                   \o <<Ended(body[cut], "raise")>>

\* the calls of the log made by the loop
LoopCalls ==
  Of({"read", "resize", "track", "predict", "plot", "image", "release"})

\* the loop has been entered on an open capture
LoopEntered == Len(Done({"VideoCapture"})) = 1 /\ env.opens

\* C10: play_webcam's inlined frame processing is equivalent to the loop
\* around _display_detected_frames: in the same world (the same read results,
\* flag, tracker and conf) play_webcam makes the calls that loop makes, the
\* same as play_stored_video and play_youtube_video, which run that loop: at
\* every moment a prefix of them, and all of them when the function is over.
C10_WebcamEquivalent ==
  (fn \in {"play_webcam", "play_stored_video", "play_youtube_video"}) =>
     LET ref == HelperLoop(env, conf, is_display_tracker, tracker, 1)
     IN IF LoopEntered
          THEN /\ IsPrefix(LoopCalls, ref)
               /\ Terminated => LoopCalls = ref
          ELSE LoopCalls = <<>>

\* play_webcam with tracking on: two frames rendered, then the failed read
\* and the release
C10_Witness ==
  /\ fn = "play_webcam"
  /\ pc = "returned"
  /\ is_display_tracker
  /\ Len(Done({"image"})) >= 2
  /\ Len(Of({"release"})) = 1

=============================================================================
